---- MODULE Spec2Model ----
(***************************************************************************)
(* Camera lifecycle and capture orchestration of the calibration wizard:   *)
(* the per-camera capture counters of pages/Index.tsx, the capture step of *)
(* components/IntrinsicCalibration.tsx and the stream state machine of     *)
(* components/CameraView.tsx.                                              *)
(*                                                                         *)
(* React is modelled at handler granularity: an event handler, a timer     *)
(* callback or the continuation of an await runs to its next await as one  *)
(* atomic step, and the re-render that follows a state update is part of   *)
(* that step (closures read by the next event are those of the current     *)
(* render).                                                                *)
(***************************************************************************)
EXTENDS Integers, Sequences, FiniteSets, TLC

\* ------------------------------------------------------------------ bounds

\* Detection requests that may be awaiting their response at the same time,
\* over all slots.
MaxInFlight == 2

\* Cameras the enumeration found (cameraDevices.length), at most NumSlots:
\* the slots at and beyond it show no camera and cannot capture.
MaxDevices == 2

\* Effect runs (mounts) of the CameraView of the observed slot, over all of
\* its component instances.
MaxMounts == 3

\* getCameras calls that may be running at the same time.
MaxCalls == 2

\* Video input devices that may be plugged in.
MaxPresent == 2

\* Streams the cameras of the setup step may obtain, over all slots.
MaxStreams == 4

\* Capture rounds (captureImage calls) of the extrinsic step.
MaxRounds == 2

\* calibration_progress requests that may be awaiting their answer.
MaxPolls == 2

\* ------------------------------------------------------- program constants

\* The three fixed camera positions of the rig ([0, 1, 2].map(...)).
NumSlots == 3
Slots == 0 .. (NumSlots - 1)

\* Math.min(newCounts[cameraIndex] + 1, 15): the per-camera cap.
MaxCaptures == 15

\* const totalRequiredImages = 15: the cap the capture button reads.
totalRequiredImages == 15

\* STEPS.length: the wizard's steps, currentStep in 0 .. NumSteps - 1.
NumSteps == 5

\* {currentStep === 1 && <IntrinsicCalibrationStep .../>}
IntrinsicStep == 1

\* const MAX_RETRIES = 7 of CameraView's effect.
MAX_RETRIES == 7

\* minMarkersDetected: 4 of the configuration of CalibrationService.
minMarkersDetected == 4

\* const MAX_PERMISSION_ATTEMPTS = 5 of getCameras.
MAX_PERMISSION_ATTEMPTS == 5

VARIABLES
    currentStep,     \* Index: useState(0)
    currentCamera,   \* Index: useState(0)
    captureCounts,   \* Index: useState([0, 0, 0])
    cameraDevices,   \* useCameras: the device list, by its length
    isCapturing,     \* IntrinsicCalibration (per slot): useState(false)
    streamReady,     \* IntrinsicCalibration (per slot): useState(false)
    inflight,        \* per slot: detect_markers requests awaiting a response,
                     \* own: sent by the mounted component, old: by an unmounted one
    confirmed,       \* history: per slot, backend-confirmed detections delivered
                     \* since the slot's last reset (counted up to the cap)
    fewCounted,      \* history: a response with fewer than minMarkersDetected
                     \* marker ids has incremented a count
    viewReady,       \* per slot: the slot's CameraView is mounted and holds
                     \* the stream it announced with onStream
    jointFlight,     \* history: the last request was sent while another
                     \* slot's was in flight, and no answer since was a failure
    jointCounted     \* history: the confirmed answers since that request

capVars == <<currentStep, currentCamera, captureCounts, cameraDevices,
             isCapturing, streamReady, inflight, confirmed, fewCounted,
             viewReady, jointFlight, jointCounted>>

\* The CameraView of one slot (the instances of the component share nothing
\* but the slot's videoRef, so one slot is observed).  A mount is one run of
\* the component's effect; an instance is one life of the component, which
\* owns the refs and the state, and is named by its first mount.
VARIABLES
    gumSupported,    \* navigator.mediaDevices.getUserMedia exists
    cur,             \* the mount whose `mounted` is true, 0: none
    nMounts,         \* effect runs so far: the mounts are 1 .. nMounts
    inst,            \* per mount: its component instance
    hasDevice,       \* per mount: the deviceId prop of its closure is defined
    warm,            \* mounts whose warm-up timer (2500 ms) is pending
    retryTimers,     \* mounts whose retryTimeout (3000 ms) is pending
    pc,              \* per mount: where its initCamera call is suspended
    retryCount,      \* per mount: let retryCount of its closure
    initializingRef, \* per instance: initializingRef.current
    streamRef,       \* streamRef.current of the mounted instance
    srcObject,       \* srcObject of the slot's video element, NoStream without one
    isInitializing,  \* useState(true) of the mounted instance
    hasError,        \* useState(false) of the mounted instance
    live,            \* the streams whose tracks are not stopped
    attempts,        \* history: per mount, acquire sequences it started
    late,            \* history: streams obtained by a mount already torn down
    signals,         \* history: <<kind, stream>> for each Ready, onStream call
                     \* and success toast
    errToasts,       \* history: per mount, "Camera Error" toasts
    events           \* history: what the current acquire sequence of the
                     \* mounted closure did, in order, as <<kind, stream>>

camVars == <<gumSupported, cur, nMounts, inst, hasDevice, warm, retryTimers, pc,
             retryCount, initializingRef, streamRef, srcObject, isInitializing,
             hasError, live, attempts, late, signals, errToasts, events>>

\* useCameras of Index: the enumeration of the devices.
VARIABLES
    present,         \* video input devices plugged in (the environment)
    calls,           \* per getCameras call: pc, where it is suspended;
                     \* permissionAttempts, its local; and its history: probes,
                     \* the getUserMedia calls it made; enumerated, it called
                     \* enumerateDevices; toast, the toast it showed; afterFail,
                     \* an enumeration had failed before it started
    refreshTimer,    \* Index: the 1000 ms refresh timer is pending
    failedOnce,      \* history: an enumeration has failed
    latest,          \* history: the call of getCameras started last
    latestDone,      \* history: that call has completed
    latestList       \* history: the list that call has set

enumVars == <<present, calls, refreshTimer, failedOnce, latest, latestDone,
             latestList>>

\* useCameras of Index, the registry of connected streams, and the
\* CameraViews of the setup step that feed it.  A stream is a number from 1,
\* 0 stands for none.
VARIABLES
    pageMounted,     \* the route of Index is shown
    slotStream,      \* per slot: streamRef.current of its CameraView
    slotReady,       \* per slot: its CameraView has reached Ready
    cameraStreams,   \* useCameras: useState({}), by slot of the device
    effectStreams,   \* the cameraStreams the cleanup of the effect closes over
    liveStreams,     \* the streams whose tracks are not stopped
    nextId,          \* the next stream the platform hands out
    regStopped,      \* history: streams the registry called stop() on
    stolen,          \* history: streams that were live and held by a slot
                     \* when the registry stopped them
    slotFails,       \* history: per slot, the failed attempts of its acquire
                     \* sequence (the one running, or the last that succeeded)
    slotToasts       \* history: per slot, the toasts shown for that sequence

regVars == <<pageMounted, slotStream, slotReady, cameraStreams, effectStreams,
             liveStreams, nextId, regStopped, stolen, slotFails, slotToasts>>

\* ExtrinsicCalibration: the capture rounds of the extrinsic step.
VARIABLES
    isCalibrating,   \* useState(false)
    calStatus,       \* calibrationProgress.status
    nRounds,         \* captureImage calls so far: the rounds are 1 .. nRounds
    rounds,          \* per round: pc, where its captureImage call is; det, per
                     \* camera the state of its detection; start, the state of
                     \* its start_calibration request
    finTimer         \* the 2000 ms timer of finally: "none", or the
                     \* calibrationProgress.status its closure captured

extVars == <<isCalibrating, calStatus, nRounds, rounds, finTimer>>

\* The singleton calibrationService, the backend it talks to, and the
\* history of the extrinsic step.
VARIABLES
    svcCalibrating,  \* CalibrationService: private isCalibrating = false
    progressInterval,\* CalibrationService: progressInterval is set
    polls,           \* calibration_progress requests awaiting their answer
    stopPending,     \* a /stop request awaits its answer
    job,             \* the backend's job: "none", "running" (progress below
                     \* 100) or "full" (progress 100)
    terminalSeen,    \* history: since polling was last started, what ended
                     \* the job for a poll: "full" (it observed progress >=
                     \* 100), "failed" (it failed), "none" so far
    stopResolved,    \* history: since polling was last started, a
                     \* stopCalibration call has resolved
    refusals,        \* history: per round, the cameras whose detection answer
                     \* was ok with success: false in its body
    refreshToast,    \* history: the toast of the last handleRefresh
    stalePolls       \* history: how many of the polls awaiting their answer
                     \* were sent before polling was last started

svcVars == <<svcCalibrating, progressInterval, polls, stopPending, job,
             terminalSeen, stopResolved, refusals, refreshToast, stalePolls>>

\* The state of Index other than the device list.
capRest == <<currentStep, currentCamera, captureCounts, isCapturing,
             streamReady, inflight, confirmed, fewCounted, viewReady,
             jointFlight, jointCounted>>

\* What a handler of the capture step leaves alone.
CaptureFrame == UNCHANGED <<camVars, enumVars, regVars, extVars, svcVars>>

\* What a handler of CameraView leaves alone.
CameraFrame == UNCHANGED <<capVars, enumVars, regVars, extVars, svcVars>>

\* What a step of getCameras leaves alone.
EnumFrame == UNCHANGED <<capRest, camVars, regVars, extVars, svcVars>>

\* What a step of the setup step and the registry leaves alone.
RegFrame ==
    UNCHANGED <<currentCamera, captureCounts, cameraDevices, isCapturing,
                streamReady, inflight, confirmed, fewCounted, viewReady,
                jointFlight, jointCounted, camVars, enumVars, extVars,
                svcVars>>

\* What a step of the extrinsic step leaves alone.
ExtFrame == UNCHANGED <<capVars, camVars, enumVars, regVars>>

\* ------------------------------------------------------------ pure helpers

Min(a, b) == IF a < b THEN a ELSE b
Max(a, b) == IF a > b THEN a ELSE b

\* The marker ids of a detection answer (result.markers.ids.length), one
\* short of the threshold or at it.
MarkerCounts == {minMarkersDetected - 1, minMarkersDetected}

\* The answer of POST /detect_markers as captureAndDetect and detectMarkers
\* read it: response.ok, result.success, result.detected and the number of
\* result.markers.ids.  The body of a response that is not ok is never read
\* (a request that fails is an answer that is not ok).
DetectResponses ==
    {r \in [ok : BOOLEAN, success : BOOLEAN, detected : BOOLEAN,
            ids : MarkerCounts] :
        r.ok \/ (~r.success /\ ~r.detected /\ r.ids = minMarkersDetected - 1)}

Pending(i) == inflight[i].own + inflight[i].old
TotalPending == Pending(0) + Pending(1) + Pending(2)

\* --------------------------------------------------------------- Index.tsx

handleCameraSwitch_ResetsAll(index) ==
    /\ currentCamera' = index
    /\ captureCounts' = [i \in Slots |-> 0]

\* handleCameraSwitch(index)
handleCameraSwitch(index) ==
    /\ currentCamera' = index
    /\ captureCounts' = [captureCounts EXCEPT ![index] = 0]

handleCapture_DropsOthers(prev, cameraIndex) ==
    [i \in Slots |-> IF i = cameraIndex THEN Min(prev[i] + 1, MaxCaptures)
                                        ELSE 0]

handleCapture_NoCap(prev, cameraIndex) ==
    [prev EXCEPT ![cameraIndex] = prev[cameraIndex] + 1]

\* handleCapture(cameraIndex): the functional update of captureCounts.
handleCapture(prev, cameraIndex) ==
    [prev EXCEPT ![cameraIndex] = Min(prev[cameraIndex] + 1, MaxCaptures)]


\* The wizard shows the intrinsic step: the three IntrinsicCalibration
\* components (and their state) exist only while it does.
IntrinsicMounted == currentStep = IntrinsicStep

\* onPrevious / onNext of NavigationButtons.
onPrevious == Max(0, currentStep - 1)
onNext == Min(NumSteps - 1, currentStep + 1)

\* A navigation commits the new step.  Leaving the intrinsic step unmounts
\* its components: their state is discarded, while the requests they sent
\* stay in flight (fetch is not aborted) and keep their onCapture closure.
\* Entering it mounts fresh components (useState(false) twice).
Navigate(to) ==
    /\ to # currentStep
    /\ currentStep' = to
    /\ isCapturing' = [i \in Slots |-> FALSE]
    /\ streamReady' = [i \in Slots |-> FALSE]
    /\ inflight' = [i \in Slots |->
                      [own |-> 0, old |-> inflight[i].own + inflight[i].old]]
    /\ viewReady' = [i \in Slots |-> FALSE]
    /\ jointFlight' = FALSE
    /\ jointCounted' = 0
    /\ UNCHANGED <<currentCamera, captureCounts, cameraDevices, confirmed, fewCounted>>
    /\ CaptureFrame

NavigatePrevious == Navigate(onPrevious)
NavigateNext == Navigate(onNext)

\* ------------------------------------------------- IntrinsicCalibration.tsx

\* handleStreamReady: the onStream callback of the slot's CameraView.
handleStreamReady(i) ==
    /\ IntrinsicMounted
    /\ i < cameraDevices
    /\ streamReady' = [streamReady EXCEPT ![i] = TRUE]
    /\ viewReady' = [viewReady EXCEPT ![i] = TRUE]
    /\ UNCHANGED <<currentStep, currentCamera, captureCounts, cameraDevices,
                   isCapturing, inflight, confirmed, fewCounted, jointFlight,
                   jointCounted>>
    /\ CaptureFrame

ButtonEnabled_IgnoresCount(i) ==
    /\ streamReady[i]
    /\ ~isCapturing[i]

\* disabled={!streamReady || captureCount >= totalRequiredImages || isCapturing}
\* of the capture button: a click on a disabled button calls nothing.
ButtonEnabled(i) ==
    /\ streamReady[i]
    /\ captureCounts[i] < totalRequiredImages
    /\ ~isCapturing[i]

\* if (isCapturing || !streamReady || !cameraDevices[cameraIndex]) return;
CaptureGuard(i) ==
    /\ ~isCapturing[i]
    /\ streamReady[i]
    /\ i < cameraDevices

\* A click on the capture button of slot i: captureAndDetect up to its
\* await fetch(...).  haveVideo is videoRefs[i].current && canvas && ctx:
\* without them the handler toasts an error and returns through finally.
captureAndDetect(i, haveVideo) ==
    /\ IntrinsicMounted
    /\ i < cameraDevices
    /\ ButtonEnabled(i)
    /\ CaptureGuard(i)
    /\ TotalPending < MaxInFlight
    /\ IF haveVideo
         THEN /\ isCapturing' = [isCapturing EXCEPT ![i] = TRUE]
              /\ inflight' = [inflight EXCEPT ![i].own = @ + 1]
              /\ jointFlight' = (\E j \in Slots \ {i} : Pending(j) > 0)
              /\ jointCounted' = 0
         ELSE UNCHANGED <<isCapturing, inflight, jointFlight, jointCounted>>
    /\ UNCHANGED <<currentStep, currentCamera, captureCounts, cameraDevices,
                   streamReady, confirmed, fewCounted, viewReady>>
    /\ CaptureFrame

\* What the backend said: HTTP ok, success and detected (the history variable
\* confirmed counts these, whatever the handler makes of the response).
BackendConfirmed(r) == r.ok /\ r.success /\ r.detected

DetectionSucceeded_IgnoresDetected(r) == r.ok /\ r.success

\* if (result.success && result.detected), reached only when response.ok
DetectionSucceeded(r) == r.ok /\ r.success /\ r.detected

\* History: the answer r makes the count of slot i go up although it
\* carries fewer marker ids than the threshold.
CountedBelowThreshold(i, r) ==
    /\ DetectionSucceeded(r)
    /\ r.ids < minMarkersDetected
    /\ captureCounts[i] < MaxCaptures

\* The continuation of captureAndDetect after await fetch: onCapture() on a
\* confirmed detection, an error toast otherwise, setIsCapturing(false) in
\* finally.  fromMounted: the request was sent by the component now mounted
\* (a state update of an unmounted component is dropped).
DetectResponse(i, r, fromMounted) ==
    /\ IF fromMounted THEN inflight[i].own > 0 ELSE inflight[i].old > 0
    /\ inflight' = IF fromMounted THEN [inflight EXCEPT ![i].own = @ - 1]
                                  ELSE [inflight EXCEPT ![i].old = @ - 1]
    /\ captureCounts' = IF DetectionSucceeded(r)
                           THEN handleCapture(captureCounts, i)
                           ELSE captureCounts
    /\ confirmed' = IF BackendConfirmed(r)
                       THEN [confirmed EXCEPT ![i] = Min(@ + 1, MaxCaptures)]
                       ELSE confirmed
    /\ fewCounted' = (fewCounted \/ CountedBelowThreshold(i, r))
    /\ jointFlight' = (jointFlight /\ BackendConfirmed(r))
    /\ jointCounted' = IF jointFlight /\ BackendConfirmed(r)
                          THEN jointCounted + 1 ELSE 0
    /\ isCapturing' = IF fromMounted THEN [isCapturing EXCEPT ![i] = FALSE]
                                     ELSE isCapturing
    /\ UNCHANGED <<currentStep, currentCamera, cameraDevices, streamReady,
                   viewReady>>
    /\ CaptureFrame

\* switchCamera(index): handleCameraSwitch with the history reset.
SwitchCamera(index) ==
    /\ handleCameraSwitch(index)
    /\ confirmed' = [confirmed EXCEPT ![index] = 0]
    /\ UNCHANGED <<currentStep, cameraDevices, isCapturing, streamReady, inflight,
                   fewCounted, viewReady, jointFlight, jointCounted>>
    /\ CaptureFrame

\* setCameraDevices(videoDevices) of Index's useCameras (a 'devicechange' or
\* a refresh has enumerated n devices): a new array.  handleStreamReady
\* depends on cameraDevices, so every slot's CameraView, whose effect depends
\* on onStream, cleans up (stops its stream) and starts over; a slot with
\* cameraIndex >= cameraDevices.length renders null.  Nothing resets
\* streamReady.
DevicesRefreshed(n) ==
    /\ cameraDevices' = n
    /\ viewReady' = [i \in Slots |-> FALSE]
    /\ UNCHANGED <<currentStep, currentCamera, captureCounts, isCapturing,
                   streamReady, inflight, confirmed, fewCounted, jointFlight,
                   jointCounted>>
    /\ CaptureFrame

\* ------------------------------------------------------------ CameraView.tsx

Mounts == 1 .. MaxMounts

\* A stream is named by the mount and the acquire sequence that obtained it.
NoStream == [m |-> 0, a |-> 0]
StreamOf(m) == [m |-> m, a |-> attempts[m]]

\* let mounted = true ... return () => { mounted = false; ... }
Mounted(m) == m = cur

\* <video ref={videoRef}> is rendered unless hasError: videoRef.current
VideoElement == cur # 0 /\ ~hasError

\* The instance that owns streamRef: a torn-down instance's streamRef is null
\* (its cleanup cleared it, and only a mounted closure assigns it).
SharesRefs(m) == cur # 0 /\ inst[m] = inst[cur]

StopExisting_Keeps(lv) == lv

\* if (streamRef.current) { ...getTracks().forEach(track => track.stop()) }
StopExisting(lv) == lv \ {streamRef}

\* if (retryTimeout) { clearTimeout(retryTimeout) } of the cleanup
CleanupTimers == retryTimers \ {cur}

\* The effect's cleanup, for the mounted closure: mounted = false (the caller
\* sets cur), its retry timer cleared, the stream held stopped and dropped,
\* the sink detached.  retryCount of a torn-down closure is never read again
\* (every use is under if (mounted)) and is dropped; the history of the mount
\* is dropped with it, and from here on records what the closure does after
\* its teardown.
Cleanup ==
    /\ retryTimers' = CleanupTimers
    /\ live' = StopExisting(live)
    /\ streamRef' = NoStream
    /\ srcObject' = IF VideoElement THEN NoStream ELSE srcObject
    /\ attempts' = [attempts EXCEPT ![cur] = 0]
    /\ signals' = {sg \in signals : sg[2].m # cur}
    /\ errToasts' = [errToasts EXCEPT ![cur] = 0]
    /\ events' = << >>

\* The effect body: a new closure (mounted, retryCount = 0) and its warm-up
\* timer, setTimeout(initCamera, 2500), whose handle is not kept.
NewMount(m, instance, d) ==
    /\ nMounts' = m
    /\ cur' = m
    /\ inst' = [inst EXCEPT ![m] = instance]
    /\ hasDevice' = [hasDevice EXCEPT ![m] = d]
    /\ warm' = warm \cup {m}

\* A CameraView is mounted for the slot (a step that shows the camera is
\* entered, or the slot's device appears): fresh refs, fresh state, a fresh
\* video element.
MountFresh(d) ==
    /\ cur = 0
    /\ nMounts < MaxMounts
    /\ NewMount(nMounts + 1, nMounts + 1, d)
    /\ initializingRef' = [initializingRef EXCEPT ![nMounts + 1] = FALSE]
    /\ isInitializing' = TRUE
    /\ hasError' = FALSE
    /\ streamRef' = NoStream
    /\ srcObject' = NoStream
    /\ UNCHANGED <<gumSupported, retryTimers, pc, retryCount, live, attempts,
                   late, signals, errToasts, events>>
    /\ CameraFrame

\* A dependency of the effect changed ([deviceId, onStream, toast, videoRef]):
\* the cleanup of the mounted closure, then the effect again, in the same
\* instance.
Rerun(d) ==
    /\ cur # 0
    /\ nMounts < MaxMounts
    /\ Cleanup
    /\ retryCount' = [retryCount EXCEPT ![cur] = 0]
    /\ NewMount(nMounts + 1, inst[cur], d)
    /\ UNCHANGED <<gumSupported, pc, initializingRef, isInitializing, hasError,
                   late>>
    /\ CameraFrame

\* The component is unmounted: the cleanup of the mounted closure; the
\* instance and its state are gone.
Unmount ==
    /\ cur # 0
    /\ cur' = 0
    /\ Cleanup
    /\ retryCount' = [retryCount EXCEPT ![cur] = 0]
    /\ isInitializing' = TRUE
    /\ hasError' = FALSE
    /\ UNCHANGED <<gumSupported, nMounts, inst, hasDevice, warm, pc,
                   initializingRef, late>>
    /\ CameraFrame

CanRetry_OneMore(m) == retryCount[m] <= MAX_RETRIES

\* if (retryCount < MAX_RETRIES)
CanRetry(m) == retryCount[m] < MAX_RETRIES

GiveUpTimers_Reschedules(m, timers) == timers \cup {m}

\* else { setHasError(true); ... }: giving up sets no timer.
GiveUpTimers(m, timers) == timers

RetryToasts_Notifies(m) == [errToasts EXCEPT ![m] = @ + 1]

\* if (retryCount < MAX_RETRIES) { retryCount++; console.log(...);
\* retryTimeout = setTimeout(initCamera, 3000) }: no toast.
RetryToasts(m) == errToasts

\* catch (error) { if (mounted) { ... } }: a retry in 3000 ms while the
\* closure's retryCount allows, else the Error state and its toast (the
\* error view replaces the video element; the stream held is left as it is).
\* timers are the retry timers pending when the call fails.
Catch(m, timers) ==
    IF Mounted(m)
      THEN IF CanRetry(m)
             THEN /\ retryCount' = [retryCount EXCEPT ![m] = @ + 1]
                  /\ retryTimers' = timers \cup {m}
                  /\ errToasts' = RetryToasts(m)
                  /\ UNCHANGED <<hasError, isInitializing, srcObject>>
             ELSE /\ hasError' = TRUE
                  /\ isInitializing' = FALSE
                  /\ errToasts' = [errToasts EXCEPT ![m] = @ + 1]
                  /\ retryTimers' = GiveUpTimers(m, timers)
                  /\ srcObject' = NoStream
                  /\ UNCHANGED retryCount
      ELSE /\ retryTimers' = timers
           /\ UNCHANGED <<retryCount, hasError, isInitializing, errToasts,
                          srcObject>>

\* An await of the initCamera call of mount m rejects: catch, then finally
\* { initializingRef.current = false }.
CatchFinally(m) ==
    /\ pc' = [pc EXCEPT ![m] = "idle"]
    /\ initializingRef' = [initializingRef EXCEPT ![inst[m]] = FALSE]
    /\ Catch(m, retryTimers)

\* if (!deviceId || initializingRef.current) return;
SingleFlight(m) == initializingRef[inst[m]]

\* initCamera of mount m, called by a timer, up to await getUserMedia: the
\* guard, the release of the stream held, the detach of the sink, the
\* request.  Without getUserMedia it throws before any of them.
initCamera(m) ==
    IF ~hasDevice[m] \/ SingleFlight(m)
      THEN /\ retryTimers' = retryTimers \ {m}
           /\ UNCHANGED <<pc, initializingRef, retryCount, hasError,
                          isInitializing, errToasts, attempts, live, streamRef,
                          srcObject, events>>
      ELSE /\ attempts' = [attempts EXCEPT ![m] = @ + 1]
           /\ events' = IF Mounted(m) THEN << >> ELSE events
           /\ IF ~gumSupported
                THEN /\ Catch(m, retryTimers \ {m})
                     /\ UNCHANGED <<pc, initializingRef, live, streamRef>>
                ELSE /\ pc' = [pc EXCEPT ![m] = "gum"]
                     /\ initializingRef' = [initializingRef EXCEPT ![inst[m]] = TRUE]
                     /\ live' = IF SharesRefs(m) THEN StopExisting(live) ELSE live
                     /\ streamRef' = IF SharesRefs(m) THEN NoStream ELSE streamRef
                     /\ srcObject' = IF VideoElement THEN NoStream ELSE srcObject
                     /\ retryTimers' = retryTimers \ {m}
                     /\ UNCHANGED <<retryCount, hasError, isInitializing, errToasts>>

\* Timers of one delay fire in the order they were set.
NextWarmup(m) == m \in warm /\ \A k \in warm : m <= k

\* The warm-up timer of mount m fires: setTimeout(initCamera, 2500).
WarmupFires(m) ==
    /\ NextWarmup(m)
    /\ warm' = warm \ {m}
    /\ initCamera(m)
    /\ UNCHANGED <<gumSupported, cur, nMounts, inst, hasDevice, late, signals>>
    /\ CameraFrame

\* The retry timer of mount m fires: retryTimeout = setTimeout(initCamera, 3000).
RetryFires(m) ==
    /\ m \in retryTimers
    /\ initCamera(m)
    /\ UNCHANGED <<gumSupported, cur, nMounts, inst, hasDevice, warm, late, signals>>
    /\ CameraFrame

TornDown_Never(m) == FALSE

\* if (!mounted) { stream.getTracks().forEach(track => track.stop()); return; }
TornDown(m) == ~Mounted(m)

\* getUserMedia resolves for mount m: a stream obtained after the teardown
\* of its mount is stopped at once; otherwise it is held in streamRef,
\* attached to the video element if there is one, and the call awaits
\* loadedmetadata.
GumResolve(m) ==
    /\ pc[m] = "gum"
    /\ late' = IF Mounted(m) THEN late ELSE late \cup {StreamOf(m)}
    /\ IF TornDown(m)
         THEN /\ pc' = [pc EXCEPT ![m] = "idle"]
              /\ initializingRef' = [initializingRef EXCEPT ![inst[m]] = FALSE]
              /\ UNCHANGED <<live, streamRef, srcObject>>
         ELSE /\ streamRef' = StreamOf(m)
              /\ live' = live \cup {StreamOf(m)}
              /\ IF VideoElement
                   THEN /\ srcObject' = StreamOf(m)
                        /\ pc' = [pc EXCEPT ![m] = "meta"]
                        /\ UNCHANGED initializingRef
                   ELSE /\ pc' = [pc EXCEPT ![m] = "idle"]
                        /\ initializingRef' =
                              [initializingRef EXCEPT ![inst[m]] = FALSE]
                        /\ UNCHANGED srcObject
    /\ events' = IF Mounted(m) /\ VideoElement
                   THEN Append(events, <<"attach", StreamOf(m)>>)
                   ELSE events
    /\ UNCHANGED <<gumSupported, cur, nMounts, inst, hasDevice, warm, retryTimers,
                   retryCount, isInitializing, hasError, attempts, signals,
                   errToasts>>
    /\ CameraFrame

\* getUserMedia rejects for mount m.
GumReject(m) ==
    /\ pc[m] = "gum"
    /\ CatchFinally(m)
    /\ UNCHANGED <<gumSupported, cur, nMounts, inst, hasDevice, warm, streamRef,
                   live, attempts, late, signals, events>>
    /\ CameraFrame

\* onloadedmetadata: the call goes on to await videoRef.current.play().
MetaResolve(m) ==
    /\ pc[m] = "meta"
    /\ pc' = [pc EXCEPT ![m] = "play"]
    /\ events' = IF Mounted(m)
                   THEN Append(events, <<"loadedmetadata", StreamOf(m)>>)
                   ELSE events
    /\ UNCHANGED <<gumSupported, cur, nMounts, inst, hasDevice, warm, retryTimers,
                   retryCount, initializingRef, streamRef, srcObject,
                   isInitializing, hasError, live, attempts, late, signals,
                   errToasts>>
    /\ CameraFrame

\* onerror of the video element: the readiness wait rejects.
MetaReject(m) ==
    /\ pc[m] = "meta"
    /\ CatchFinally(m)
    /\ UNCHANGED <<gumSupported, cur, nMounts, inst, hasDevice, warm, streamRef,
                   live, attempts, late, signals, events>>
    /\ CameraFrame

ReadyAnnouncements_CallbackFirst(s) ==
    << <<"onStream", s>>, <<"ready", s>>, <<"toast", s>> >>

\* setIsInitializing(false); setHasError(false); onStream?.(stream); toast(...)
ReadyAnnouncements(s) ==
    << <<"ready", s>>, <<"onStream", s>>, <<"toast", s>> >>

\* play() resolves: if (mounted) the slot is Ready, onStream is called and
\* the success toast shown, in this order.
PlayResolve(m) ==
    /\ pc[m] = "play"
    /\ pc' = [pc EXCEPT ![m] = "idle"]
    /\ initializingRef' = [initializingRef EXCEPT ![inst[m]] = FALSE]
    /\ IF Mounted(m)
         THEN /\ isInitializing' = FALSE
              /\ hasError' = FALSE
              /\ retryCount' = [retryCount EXCEPT ![m] = 0]
              /\ signals' = signals \cup
                    {ReadyAnnouncements(StreamOf(m))[k] : k \in 1 .. 3}
              /\ events' = events \o ReadyAnnouncements(StreamOf(m))
         ELSE UNCHANGED <<isInitializing, hasError, retryCount, signals, events>>
    /\ UNCHANGED <<gumSupported, cur, nMounts, inst, hasDevice, warm, retryTimers,
                   streamRef, srcObject, live, attempts, late, errToasts>>
    /\ CameraFrame

\* play() rejects.
PlayReject(m) ==
    /\ pc[m] = "play"
    /\ CatchFinally(m)
    /\ UNCHANGED <<gumSupported, cur, nMounts, inst, hasDevice, warm, streamRef,
                   live, attempts, late, signals, events>>
    /\ CameraFrame

\* ------------------------------------------------------------ useCameras.ts

Calls == 1 .. MaxCalls

IdleCall ==
    [pc |-> "idle", permissionAttempts |-> 0, probes |-> 0,
     enumerated |-> FALSE, toast |-> "none", afterFail |-> FALSE]

\* getCameras() up to its first await: the first getUserMedia of the probe.
StartedCall ==
    [pc |-> "probe", permissionAttempts |-> 0, probes |-> 1,
     enumerated |-> FALSE, toast |-> "none", afterFail |-> failedOnce]

\* The calls are told apart only by their order: a new call takes the first
\* record that is free.
FreeCall(c) == calls[c].pc \in {"idle", "done"}
NewCall(c) == FreeCall(c) /\ \A k \in Calls : FreeCall(k) => c <= k

getCameras(c) ==
    /\ NewCall(c)
    /\ calls' = [calls EXCEPT ![c] = StartedCall]
    /\ latest' = c
    /\ latestDone' = FALSE
    /\ UNCHANGED latestList

\* The effect of useCameras runs again (its dependencies are getCameras and
\* cameraStreams): getCameras().
EffectRun(c) ==
    /\ getCameras(c)
    /\ UNCHANGED <<present, refreshTimer, failedOnce, cameraDevices>>
    /\ EnumFrame

\* 'devicechange': a device is plugged in or out, handleDeviceChange calls
\* getCameras().
handleDeviceChange(c, n) ==
    /\ n # present
    /\ present' = n
    /\ getCameras(c)
    /\ UNCHANGED <<refreshTimer, failedOnce, cameraDevices>>
    /\ EnumFrame

\* Index: if (cameraDevices.length === 0) setTimeout(refreshCameras, 1000).
RefreshTimerFires(c) ==
    /\ refreshTimer
    /\ cameraDevices = 0
    /\ refreshTimer' = FALSE
    /\ getCameras(c)
    /\ UNCHANGED <<present, failedOnce, cameraDevices>>
    /\ EnumFrame

FailList_Keeps(list) == list

\* setCameraDevices([]) of the catch block
FailList(list) == 0

\* catch (error): the "Camera Error" toast and the empty list; the effect of
\* Index sees a new (empty) list and sets its refresh timer.
Fail(c, failures) ==
    /\ calls' = [calls EXCEPT ![c].pc = "done",
                              ![c].permissionAttempts = failures,
                              ![c].toast = "Camera Error"]
    /\ cameraDevices' = FailList(cameraDevices)
    /\ refreshTimer' = (FailList(cameraDevices) = 0)
    /\ failedOnce' = TRUE
    /\ latestDone' = (latestDone \/ c = latest)
    /\ latestList' = IF c = latest THEN FailList(cameraDevices) ELSE latestList
    /\ UNCHANGED latest

\* await navigator.mediaDevices.enumerateDevices()
Enumerate(c, failures) ==
    /\ calls' = [calls EXCEPT ![c].pc = "enum",
                              ![c].permissionAttempts = failures,
                              ![c].enumerated = TRUE]
    /\ UNCHANGED <<cameraDevices, refreshTimer, failedOnce, latest,
                   latestDone, latestList>>

\* The probe stream is obtained (its tracks are stopped at once): break,
\* then enumerateDevices.
ProbeResolve(c) ==
    /\ calls[c].pc = "probe"
    /\ Enumerate(c, calls[c].permissionAttempts)
    /\ UNCHANGED present
    /\ EnumFrame

ProbeExhausted_Never(failures) == FALSE

\* if (permissionAttempts === MAX_PERMISSION_ATTEMPTS) throw permissionError
ProbeExhausted(failures) == failures = MAX_PERMISSION_ATTEMPTS

\* The probe fails: permissionAttempts++, then the last error is thrown to
\* the outer catch, or the call waits 3000 ms.
ProbeReject(c) ==
    /\ calls[c].pc = "probe"
    /\ IF ProbeExhausted(calls[c].permissionAttempts + 1)
         THEN Fail(c, calls[c].permissionAttempts + 1)
         ELSE /\ calls' = [calls EXCEPT ![c].pc = "backoff",
                                        ![c].permissionAttempts = @ + 1]
              /\ UNCHANGED <<cameraDevices, refreshTimer, failedOnce, latest,
                             latestDone, latestList>>
    /\ UNCHANGED present
    /\ EnumFrame

\* The 3000 ms are over: while (permissionAttempts < MAX_PERMISSION_ATTEMPTS)
\* probes again, and the code after the loop enumerates.
BackoffElapsed(c) ==
    /\ calls[c].pc = "backoff"
    /\ IF calls[c].permissionAttempts < MAX_PERMISSION_ATTEMPTS
         THEN /\ calls' = [calls EXCEPT ![c].pc = "probe", ![c].probes = @ + 1]
              /\ UNCHANGED <<cameraDevices, refreshTimer, failedOnce, latest,
                             latestDone, latestList>>
         ELSE Enumerate(c, calls[c].permissionAttempts)
    /\ UNCHANGED present
    /\ EnumFrame

\* enumerateDevices resolves: the video inputs present; none is an error,
\* else setCameraDevices(videoDevices) and the "Cameras Detected" toast (a
\* list that is not empty clears the refresh timer of Index).
EnumResolve(c) ==
    /\ calls[c].pc = "enum"
    /\ IF present = 0
         THEN Fail(c, calls[c].permissionAttempts)
         ELSE /\ calls' = [calls EXCEPT ![c].pc = "done",
                                        ![c].toast = "Cameras Detected"]
              /\ cameraDevices' = present
              /\ refreshTimer' = FALSE
              /\ latestDone' = (latestDone \/ c = latest)
              /\ latestList' = IF c = latest THEN present ELSE latestList
              /\ UNCHANGED <<failedOnce, latest>>
    /\ UNCHANGED present
    /\ EnumFrame

\* enumerateDevices rejects.
EnumReject(c) ==
    /\ calls[c].pc = "enum"
    /\ Fail(c, calls[c].permissionAttempts)
    /\ UNCHANGED present
    /\ EnumFrame

\* ------------------------------- CameraSetupStep.tsx and the registry

SetupStep == 0

\* {currentStep === 0 && <CameraSetupStep .../>}
SetupMounted == pageMounted /\ currentStep = SetupStep

\* The streams the CameraViews hold.
HeldStreams == {slotStream[i] : i \in Slots} \ {0}

NoStreams == [i \in Slots |-> 0]
NoneReady == [i \in Slots |-> FALSE]

\* History: the acquire sequences cut short by a teardown are forgotten;
\* those of the slots in keep, and those that have succeeded, are kept.
SequencesAfterTeardown(fails, keep) ==
    [k \in Slots |-> IF k \in keep \/ slotToasts[k] > 0 THEN fails[k] ELSE 0]

OnStreamChanges_Stable == FALSE

\* onStream={(stream) => onStreamCapture(device.deviceId, stream)}: a new
\* function at every render of the setup step, and onStream is a dependency
\* of the effect of CameraView.
OnStreamChanges == TRUE

\* Index renders again and with it the setup step: the effect of every
\* CameraView whose onStream changed is cleaned up (the stream held is
\* stopped and dropped) and run again.
ViewsAfterRender(held) == IF OnStreamChanges THEN NoStreams ELSE held
ReadyAfterRender(rdy) == IF OnStreamChanges THEN NoneReady ELSE rdy
LiveAfterRender(lv) == IF OnStreamChanges THEN lv \ HeldStreams ELSE lv

\* The slot's CameraView obtains a stream and holds it (getUserMedia
\* resolved for the mounted closure).
SlotAcquires(i) ==
    /\ SetupMounted
    /\ i < cameraDevices
    /\ slotStream[i] = 0
    /\ nextId <= MaxStreams
    /\ slotStream' = [slotStream EXCEPT ![i] = nextId]
    /\ liveStreams' = liveStreams \cup {nextId}
    /\ nextId' = nextId + 1
    /\ slotFails' = IF slotToasts[i] > 0 THEN [slotFails EXCEPT ![i] = 0]
                                          ELSE slotFails
    /\ slotToasts' = [slotToasts EXCEPT ![i] = 0]
    /\ UNCHANGED <<pageMounted, slotReady, cameraStreams, effectStreams,
                   regStopped, stolen, currentStep>>
    /\ RegFrame

\* The readiness wait of the slot fails and its retry runs: initCamera stops
\* and drops the stream held.
SlotRetries(i) ==
    /\ SetupMounted
    /\ slotStream[i] # 0
    /\ ~slotReady[i]
    /\ slotStream' = [slotStream EXCEPT ![i] = 0]
    /\ liveStreams' = liveStreams \ {slotStream[i]}
    /\ slotFails' = [slotFails EXCEPT ![i] = @ + 1]
    /\ UNCHANGED <<pageMounted, slotReady, cameraStreams, effectStreams, nextId,
                   regStopped, stolen, slotToasts, currentStep>>
    /\ RegFrame

\* const oldStream = prev[deviceId]; if (oldStream) { ...track.stop() }
StoppedByUpdate(i) == {cameraStreams[i]} \ {0}

\* Object.values(cameraStreams).forEach(stream => ...track.stop()) of the
\* cleanup of the effect of useCameras
StoppedByCleanup == {effectStreams[i] : i \in Slots} \ {0}

\* toast({ title: "Camera Connected", ... }) of CameraView, after onStream
ViewToasts == 1

\* toast({ title: "Camera Connected", ... }) of handleStreamCapture
RegistryToasts == 1

\* The slot reaches Ready: onStream(stream) is handleStreamCapture(deviceId,
\* stream), which toasts, and CameraView toasts after it.  The update of cameraStreams stops the stream recorded before
\* for the device; Index renders again (the setup step with it); the effect
\* of useCameras, whose dependency changed, is cleaned up, stopping the
\* streams it closed over, and run again.
handleStreamCapture(i) ==
    /\ SetupMounted
    /\ slotStream[i] # 0
    /\ ~slotReady[i]
    /\ cameraStreams' = [cameraStreams EXCEPT ![i] = slotStream[i]]
    /\ effectStreams' = cameraStreams'
    /\ slotStream' = ViewsAfterRender(slotStream)
    /\ slotReady' = ReadyAfterRender([slotReady EXCEPT ![i] = TRUE])
    /\ liveStreams' =
          (LiveAfterRender(liveStreams \ StoppedByUpdate(i))) \ StoppedByCleanup
    /\ regStopped' = regStopped \cup StoppedByUpdate(i) \cup StoppedByCleanup
    /\ stolen' = stolen
          \cup (StoppedByUpdate(i) \cap liveStreams \cap HeldStreams)
          \cup {s \in StoppedByCleanup :
                  /\ s \in LiveAfterRender(liveStreams \ StoppedByUpdate(i))
                  /\ \E k \in Slots : ViewsAfterRender(slotStream)[k] = s}
    /\ slotToasts' = [slotToasts EXCEPT ![i] = RegistryToasts + ViewToasts]
    /\ slotFails' = IF OnStreamChanges
                       THEN SequencesAfterTeardown(slotFails, {i})
                       ELSE slotFails
    /\ UNCHANGED <<pageMounted, nextId, currentStep>>
    /\ RegFrame

\* Index renders again for another reason (a toast, a new device list).
IndexRenders ==
    /\ SetupMounted
    /\ HeldStreams # {}
    /\ slotStream' = ViewsAfterRender(slotStream)
    /\ slotReady' = ReadyAfterRender(slotReady)
    /\ liveStreams' = LiveAfterRender(liveStreams)
    /\ slotFails' = IF OnStreamChanges
                       THEN SequencesAfterTeardown(slotFails, {})
                       ELSE slotFails
    /\ UNCHANGED <<pageMounted, cameraStreams, effectStreams, nextId,
                   regStopped, stolen, slotToasts, currentStep>>
    /\ RegFrame

\* Previous / Next: leaving the setup step unmounts its CameraViews, whose
\* cleanups stop the streams they hold.
SetupNavigate(to) ==
    /\ pageMounted
    /\ to # currentStep
    /\ currentStep' = to
    /\ slotStream' = NoStreams
    /\ slotReady' = NoneReady
    /\ liveStreams' = liveStreams \ HeldStreams
    /\ slotFails' = [k \in Slots |-> 0]
    /\ slotToasts' = [k \in Slots |-> 0]
    /\ UNCHANGED <<pageMounted, cameraStreams, effectStreams, nextId,
                   regStopped, stolen>>
    /\ RegFrame

SetupPrevious == SetupNavigate(onPrevious)
SetupNext == SetupNavigate(onNext)

\* The route changes and Index is unmounted: the cleanup of the effect of
\* useCameras stops the streams it closed over, the cleanups of the
\* CameraViews stop theirs, and the state of Index is gone.
PageUnmount ==
    /\ pageMounted
    /\ pageMounted' = FALSE
    /\ liveStreams' = (liveStreams \ StoppedByCleanup) \ HeldStreams
    /\ regStopped' = regStopped \cup StoppedByCleanup
    /\ stolen' = stolen \cup (StoppedByCleanup \cap liveStreams \cap HeldStreams)
    /\ slotStream' = NoStreams
    /\ slotReady' = NoneReady
    /\ cameraStreams' = NoStreams
    /\ effectStreams' = NoStreams
    /\ currentStep' = 0
    /\ slotFails' = [k \in Slots |-> 0]
    /\ slotToasts' = [k \in Slots |-> 0]
    /\ UNCHANGED nextId
    /\ RegFrame

\* The route of Index is entered again: a fresh Index.
PageMount ==
    /\ ~pageMounted
    /\ pageMounted' = TRUE
    /\ UNCHANGED <<slotStream, slotReady, cameraStreams, effectStreams,
                   liveStreams, nextId, regStopped, stolen, slotFails,
                   slotToasts, currentStep>>
    /\ RegFrame

\* ------------------ ExtrinsicCalibration and CalibrationService.ts

Rounds == 1 .. MaxRounds

\* const selectedCameras = [0, 1, 2]
selectedCameras == Slots

\* What detectMarkers resolves to (it never rejects): "ok" is success and
\* detected, "nodetect" success with too few markers, "failed" success:
\* false (the request failed or the answer was not ok).
DetectResults == {"ok", "nodetect", "failed"}

NoRound ==
    [pc |-> "idle", det |-> [i \in selectedCameras |-> "none"], start |-> "none",
     closure |-> "idle"]

CaptureEnabled_AnyDevices == ~isCalibrating

\* disabled={isCalibrating || cameraDevices.length < 3}
CaptureEnabled == ~isCalibrating /\ cameraDevices >= 3

\* The detection of each camera after the map: the request is in flight, or
\* the mapper threw (no video element) before sending it.
IssueDetections(avail) ==
    [i \in selectedCameras |-> IF i \in avail THEN "pending" ELSE "threw"]

\* finally { setTimeout(() => { if (calibrationProgress.status !== 'error')
\* setIsCalibrating(false) }, 2000) }: the closure reads the status of the
\* render captureImage was created in.
FinallyTimer(r) == rounds[r].closure

\* A click on Capture Frame: round r of captureImage up to await
\* Promise.all.  avail: the cameras whose video element exists.  All the
\* mappers run before the await; if one threw, Promise.all rejects and the
\* catch block and finally run while the requests sent stay in flight.
captureImage(r, avail) ==
    /\ CaptureEnabled
    /\ r = nRounds + 1
    /\ r <= MaxRounds
    /\ finTimer = "none"
    /\ nRounds' = r
    /\ isCalibrating' = TRUE
    /\ IF avail = selectedCameras
         THEN /\ rounds' = [rounds EXCEPT ![r] =
                    [pc |-> "detecting", det |-> IssueDetections(avail),
                     start |-> "none", closure |-> calStatus]]
              /\ calStatus' = "detecting"
              /\ UNCHANGED finTimer
         ELSE /\ rounds' = [rounds EXCEPT ![r] =
                    [pc |-> "done", det |-> IssueDetections(avail),
                     start |-> "none", closure |-> calStatus]]
              /\ calStatus' = "error"
              /\ finTimer' = calStatus
    /\ UNCHANGED svcVars
    /\ ExtFrame

JoinReady_First(det) == \E i \in selectedCameras : det[i] \in DetectResults

\* await Promise.all(detectionPromises): every detection has resolved.
JoinReady(det) == \A i \in selectedCameras : det[i] \in DetectResults

AllDetected_Some(det) == \E i \in selectedCameras : det[i] = "ok"

\* results.every(result => result.success && result.detected)
AllDetected(det) == \A i \in selectedCameras : det[i] = "ok"

\* detectMarkers after await fetch: what it makes of the answer.  An answer
\* that is not ok (or a request that failed) gives success: false; an ok
\* answer gives success: true, whatever its body says, and detected by the
\* number of marker ids.
detectMarkers(resp) ==
    IF ~resp.ok THEN "failed"
    ELSE IF resp.ids >= minMarkersDetected THEN "ok"
    ELSE "nodetect"

\* detectMarkers of camera i of round r resolves.  When this completes the
\* join of a round that is waiting, captureImage goes on: with every camera
\* detected the status is 'calibrating' and start_calibration is sent, else
\* the catch block reports the error and finally sets its timer.
DetectReturns(r, i, resp) ==
    /\ rounds[r].det[i] = "pending"
    /\ refusals' = IF resp.ok /\ ~resp.success
                      THEN [refusals EXCEPT ![r] = @ \cup {i}]
                      ELSE refusals
    /\ UNCHANGED <<svcCalibrating, progressInterval, polls, stopPending, job,
                   terminalSeen, stopResolved, refreshToast,
                   stalePolls>>
    /\ LET det == [rounds[r].det EXCEPT ![i] = detectMarkers(resp)]
       IN  IF rounds[r].pc = "detecting" /\ JoinReady(det)
             THEN IF AllDetected(det)
                    THEN /\ rounds' = [rounds EXCEPT ![r].det = det,
                                                      ![r].pc = "starting",
                                                      ![r].start = "pending"]
                         /\ calStatus' = "calibrating"
                         /\ UNCHANGED finTimer
                    ELSE /\ rounds' = [rounds EXCEPT ![r].det = det,
                                                      ![r].pc = "done"]
                         /\ calStatus' = "error"
                         /\ finTimer' = FinallyTimer(r)
             ELSE /\ rounds' = [rounds EXCEPT ![r].det = det]
                  /\ UNCHANGED <<calStatus, finTimer>>
    /\ UNCHANGED <<isCalibrating, nRounds>>
    /\ ExtFrame

\* The answer of POST /start_calibration: response.ok and the success of its
\* body (a request that fails is an answer that is not ok).
StartResponses == {a \in [ok : BOOLEAN, success : BOOLEAN] : a.ok \/ ~a.success}

\* The backend starts the job when it answers ok with success.
Accepted(resp) == resp.ok /\ resp.success

\* if (!response.ok) throw ...; this.isCalibrating = true;
\* this.startProgressPolling()
StartsPolling(resp) == resp.ok

\* startCalibration resolves (it never rejects): on an ok answer the service
\* sets isCalibrating and starts the polling interval (clearing the one it
\* had).  captureImage does not read the result: it sets the status
\* 'complete' and toasts the success; finally sets its timer.
StartReturns(r, resp) ==
    /\ rounds[r].pc = "starting"
    /\ rounds' = [rounds EXCEPT ![r].pc = "done",
                                ![r].start = IF Accepted(resp) THEN "accepted"
                                                               ELSE "refused"]
    /\ calStatus' = "complete"
    /\ finTimer' = FinallyTimer(r)
    /\ IF StartsPolling(resp)
         THEN /\ svcCalibrating' = TRUE
              /\ progressInterval' = TRUE
              /\ terminalSeen' = "none"
              /\ stopResolved' = FALSE
         ELSE UNCHANGED <<svcCalibrating, progressInterval, terminalSeen,
                          stopResolved>>
    /\ job' = IF Accepted(resp) THEN "running" ELSE job
    /\ stalePolls' = IF StartsPolling(resp) THEN polls ELSE stalePolls
    /\ UNCHANGED <<isCalibrating, nRounds, polls, stopPending, refusals,
                   refreshToast>>
    /\ ExtFrame

\* The timer of finally fires.
FinallyTimerFires ==
    /\ finTimer # "none"
    /\ finTimer' = "none"
    /\ isCalibrating' = IF finTimer # "error" THEN FALSE ELSE isCalibrating
    /\ UNCHANGED <<calStatus, nRounds, rounds>>
    /\ UNCHANGED svcVars
    /\ ExtFrame

\* <ExtrinsicCalibration videoRefs canvasRef cameraDevices />: Index passes
\* no initializeCameras.
InitializeCamerasPassed == FALSE

\* Both refresh buttons: disabled={isCalibrating}
RefreshEnabled == ~isCalibrating

\* A click on Refresh Feeds or Refresh Cameras: await initializeCameras()
\* and the success toast, or the error toast of the catch block when the
\* call throws (initializeCameras is not a function).  Nothing in the
\* handler touches a camera.
handleRefresh ==
    /\ RefreshEnabled
    /\ refreshToast' = IF InitializeCamerasPassed THEN "Success" ELSE "Error"
    /\ UNCHANGED <<svcCalibrating, progressInterval, polls, stopPending, job,
                   terminalSeen, stopResolved, refusals, stalePolls>>
    /\ UNCHANGED extVars
    /\ ExtFrame

\* setCameraDevices of useCameras while the extrinsic step is shown: an
\* enumeration ends with n devices listed.
DevicesEnumerated(n) ==
    /\ cameraDevices' = n
    /\ UNCHANGED <<capRest, camVars, enumVars, regVars, extVars, svcVars>>

\* What a step of the service's polling and of the backend leaves alone.
ServiceFrame == UNCHANGED <<capVars, camVars, enumVars, regVars, extVars>>

\* The interval of startProgressPolling fires (every 1000 ms, whether or not
\* the poll before has been answered): getProgress sends its request.
PollTick ==
    /\ progressInterval
    /\ polls < MaxPolls
    /\ polls' = polls + 1
    /\ UNCHANGED <<svcCalibrating, progressInterval, stopPending, job,
                   terminalSeen, stopResolved, refusals, refreshToast,
                   stalePolls>>
    /\ ServiceFrame

\* What a calibration_progress request can be answered with: "failed"
\* (getProgress throws), or the progress of the job, "below" or "full";
\* without a job the backend may report either.
PollOutcomes ==
    {"failed"} \cup (IF job = "running" THEN {"below"}
                     ELSE IF job = "full" THEN {"full"}
                     ELSE {"below", "full"})

StopPolling_Keeps(interval) == interval

\* stopProgressPolling: clearInterval(this.progressInterval);
\* this.progressInterval = null
StopPolling(interval) == FALSE

\* A request sent before polling was last started was answered, or failed,
\* under the job of that time.
StaleOutcomes == {"failed", "below", "full"}

\* The callback of the interval after await this.getProgress():
\* stopProgressPolling when the service is not calibrating, the progress
\* has reached 100, or getProgress threw.  The answers come in any order:
\* stale tells whether this one is to a request sent before polling was last
\* started.
PollReturns(out, stale) ==
    /\ IF stale THEN stalePolls > 0 /\ out \in StaleOutcomes
                ELSE polls > stalePolls /\ out \in PollOutcomes
    /\ polls' = polls - 1
    /\ stalePolls' = IF stale THEN stalePolls - 1 ELSE stalePolls
    /\ IF out = "failed" \/ ~svcCalibrating \/ out = "full"
         THEN /\ progressInterval' = StopPolling(progressInterval)
              /\ svcCalibrating' = FALSE
         ELSE UNCHANGED <<progressInterval, svcCalibrating>>
    /\ terminalSeen' = IF out \in {"failed", "full"} THEN out ELSE terminalSeen
    /\ UNCHANGED <<stopPending, job, stopResolved, refusals, refreshToast>>
    /\ ServiceFrame

\* The backend's job reaches progress 100.
JobAdvances ==
    /\ job = "running"
    /\ job' = "full"
    /\ UNCHANGED <<svcCalibrating, progressInterval, polls, stopPending,
                   terminalSeen, stopResolved, refusals, refreshToast,
                   stalePolls>>
    /\ ServiceFrame

\* calibrationService.stopCalibration() up to await fetch: POST /stop.
stopCalibration ==
    /\ ~stopPending
    /\ stopPending' = TRUE
    /\ UNCHANGED <<svcCalibrating, progressInterval, polls, job,
                   terminalSeen, stopResolved, refusals, refreshToast,
                   stalePolls>>
    /\ ServiceFrame

\* stopCalibration after await fetch: stopProgressPolling on an ok answer
\* (the backend has stopped its job); on any other the catch block returns
\* success: false and the service is left as it was.
StopReturns(ok) ==
    /\ stopPending
    /\ stopPending' = FALSE
    /\ stopResolved' = TRUE
    /\ IF ok
         THEN /\ progressInterval' = StopPolling(progressInterval)
              /\ svcCalibrating' = FALSE
              /\ job' = IF job = "running" THEN "none" ELSE job
         ELSE UNCHANGED <<progressInterval, svcCalibrating, job>>
    /\ UNCHANGED <<polls, terminalSeen, refusals, refreshToast,
                   stalePolls>>
    /\ ServiceFrame

\* ---------------------------------------------------------- specifications

CapStart ==
    /\ currentStep = 0
    /\ currentCamera = 0
    /\ captureCounts = [i \in Slots |-> 0]
    /\ cameraDevices = Min(MaxDevices, NumSlots)
    /\ isCapturing = [i \in Slots |-> FALSE]
    /\ streamReady = [i \in Slots |-> FALSE]
    /\ inflight = [i \in Slots |-> [own |-> 0, old |-> 0]]
    /\ confirmed = [i \in Slots |-> 0]
    /\ fewCounted = FALSE
    /\ viewReady = [i \in Slots |-> FALSE]
    /\ jointFlight = FALSE
    /\ jointCounted = 0

CamStart ==
    /\ cur = 0
    /\ nMounts = 0
    /\ inst = [m \in Mounts |-> 0]
    /\ hasDevice = [m \in Mounts |-> FALSE]
    /\ warm = {}
    /\ retryTimers = {}
    /\ pc = [m \in Mounts |-> "idle"]
    /\ retryCount = [m \in Mounts |-> 0]
    /\ initializingRef = [m \in Mounts |-> FALSE]
    /\ streamRef = NoStream
    /\ srcObject = NoStream
    /\ isInitializing = TRUE
    /\ hasError = FALSE
    /\ live = {}
    /\ attempts = [m \in Mounts |-> 0]
    /\ late = {}
    /\ signals = {}
    /\ errToasts = [m \in Mounts |-> 0]
    /\ events = << >>

\* Index is mounted: no camera listed yet, the refresh timer set, and the
\* effect of useCameras has called getCameras().
EnumStart ==
    /\ present \in 0 .. MaxPresent
    /\ failedOnce = FALSE
    /\ refreshTimer = TRUE
    /\ calls = [c \in Calls |-> IF c = 1 THEN StartedCall ELSE IdleCall]
    /\ latest = 1
    /\ latestDone = FALSE
    /\ latestList = 0

\* The enumeration has settled and is left out.
EnumQuiet ==
    /\ present = 0
    /\ failedOnce = FALSE
    /\ refreshTimer = FALSE
    /\ calls = [c \in Calls |-> IdleCall]
    /\ latest = 1
    /\ latestDone = TRUE
    /\ latestList = 0

\* Index is mounted and no camera has connected.
RegStart ==
    /\ pageMounted = TRUE
    /\ slotStream = NoStreams
    /\ slotReady = NoneReady
    /\ cameraStreams = NoStreams
    /\ effectStreams = NoStreams
    /\ liveStreams = {}
    /\ nextId = 1
    /\ regStopped = {}
    /\ stolen = {}
    /\ slotFails = [k \in Slots |-> 0]
    /\ slotToasts = [k \in Slots |-> 0]

\* The service as constructed, and a backend without a job.
SvcStart ==
    /\ svcCalibrating = FALSE
    /\ progressInterval = FALSE
    /\ polls = 0
    /\ stopPending = FALSE
    /\ job = "none"
    /\ terminalSeen = "none"
    /\ stopResolved = FALSE
    /\ refusals = [r \in Rounds |-> {}]
    /\ refreshToast = "none"
    /\ stalePolls = 0

\* The extrinsic step is shown and nothing has been captured.
ExtStart ==
    /\ SvcStart
    /\ isCalibrating = FALSE
    /\ calStatus = "idle"
    /\ nRounds = 0
    /\ rounds = [r \in Rounds |-> NoRound]
    /\ finTimer = "none"

vars == <<capVars, camVars, enumVars, regVars, extVars, svcVars>>

\* The capture step: the counters of Index and the three capture components.
CaptureInit ==
    /\ CapStart /\ CamStart /\ EnumQuiet /\ RegStart /\ ExtStart
    /\ gumSupported = TRUE

CaptureNext ==
    \/ NavigatePrevious
    \/ NavigateNext
    \/ \E i \in Slots : handleStreamReady(i)
    \/ \E i \in Slots, haveVideo \in BOOLEAN : captureAndDetect(i, haveVideo)
    \/ \E i \in Slots, r \in DetectResponses, fromMounted \in BOOLEAN :
          DetectResponse(i, r, fromMounted)
    \/ \E index \in Slots : SwitchCamera(index)

SpecCapture == CaptureInit /\ [][CaptureNext]_vars

\* The capture step while cameras are plugged in and out; the detection
\* answers are those that count nothing.
ReadyDetectResponses == {r \in DetectResponses : ~DetectionSucceeded(r)}

ReadyNext ==
    \/ NavigatePrevious
    \/ NavigateNext
    \/ \E i \in Slots : handleStreamReady(i)
    \/ \E i \in Slots, haveVideo \in BOOLEAN : captureAndDetect(i, haveVideo)
    \/ \E i \in Slots, r \in ReadyDetectResponses, fromMounted \in BOOLEAN :
          DetectResponse(i, r, fromMounted)
    \/ \E n \in 1 .. NumSlots : DevicesRefreshed(n)

SpecReady == CaptureInit /\ [][ReadyNext]_vars

\* The stream lifecycle of one slot's CameraView.
CameraInit ==
    /\ CapStart /\ CamStart /\ EnumQuiet /\ RegStart /\ ExtStart
    /\ gumSupported \in BOOLEAN

CameraNext ==
    \/ \E d \in BOOLEAN : MountFresh(d)
    \/ \E d \in BOOLEAN : Rerun(d)
    \/ Unmount
    \/ \E m \in Mounts : WarmupFires(m)
    \/ \E m \in Mounts : RetryFires(m)
    \/ \E m \in Mounts : GumResolve(m)
    \/ \E m \in Mounts : GumReject(m)
    \/ \E m \in Mounts : MetaResolve(m)
    \/ \E m \in Mounts : MetaReject(m)
    \/ \E m \in Mounts : PlayResolve(m)
    \/ \E m \in Mounts : PlayReject(m)

SpecCamera == CameraInit /\ [][CameraNext]_vars

\* The device enumeration of useCameras, from the mount of Index.
EnumInit ==
    /\ EnumStart
    /\ CamStart
    /\ RegStart
    /\ ExtStart
    /\ gumSupported = TRUE
    /\ currentStep = 0
    /\ currentCamera = 0
    /\ captureCounts = [i \in Slots |-> 0]
    /\ cameraDevices = 0
    /\ isCapturing = [i \in Slots |-> FALSE]
    /\ streamReady = [i \in Slots |-> FALSE]
    /\ inflight = [i \in Slots |-> [own |-> 0, old |-> 0]]
    /\ confirmed = [i \in Slots |-> 0]
    /\ fewCounted = FALSE
    /\ viewReady = [i \in Slots |-> FALSE]
    /\ jointFlight = FALSE
    /\ jointCounted = 0

EnumNext ==
    \/ \E c \in Calls : EffectRun(c)
    \/ \E c \in Calls, n \in 0 .. MaxPresent : handleDeviceChange(c, n)
    \/ \E c \in Calls : RefreshTimerFires(c)
    \/ \E c \in Calls : ProbeResolve(c)
    \/ \E c \in Calls : ProbeReject(c)
    \/ \E c \in Calls : BackoffElapsed(c)
    \/ \E c \in Calls : EnumResolve(c)
    \/ \E c \in Calls : EnumReject(c)

SpecEnum == EnumInit /\ [][EnumNext]_vars

\* The setup step and the registry of connected streams, the devices listed.
RegistryInit ==
    /\ CapStart /\ CamStart /\ EnumQuiet /\ RegStart /\ ExtStart
    /\ gumSupported = TRUE

RegistryNext ==
    \/ \E i \in Slots : SlotAcquires(i)
    \/ \E i \in Slots : SlotRetries(i)
    \/ \E i \in Slots : handleStreamCapture(i)
    \/ IndexRenders
    \/ SetupPrevious
    \/ SetupNext
    \/ PageUnmount
    \/ PageMount

SpecRegistry == RegistryInit /\ [][RegistryNext]_vars

\* The capture rounds of the extrinsic step, with two or three cameras
\* listed.
ExtrinsicStep == 2

ExtInit ==
    /\ CamStart /\ EnumQuiet /\ RegStart /\ ExtStart
    /\ gumSupported = TRUE
    /\ currentStep = ExtrinsicStep
    /\ currentCamera = 0
    /\ captureCounts = [i \in Slots |-> 0]
    /\ cameraDevices \in {NumSlots - 1, NumSlots}
    /\ isCapturing = [i \in Slots |-> FALSE]
    /\ streamReady = [i \in Slots |-> FALSE]
    /\ inflight = [i \in Slots |-> [own |-> 0, old |-> 0]]
    /\ confirmed = [i \in Slots |-> 0]
    /\ fewCounted = FALSE
    /\ viewReady = [i \in Slots |-> FALSE]
    /\ jointFlight = FALSE
    /\ jointCounted = 0

ExtNext ==
    \/ \E r \in Rounds, avail \in SUBSET selectedCameras : captureImage(r, avail)
    \/ \E r \in Rounds, i \in selectedCameras, resp \in DetectResponses :
          DetectReturns(r, i, resp)
    \/ \E r \in Rounds, resp \in StartResponses : StartReturns(r, resp)
    \/ FinallyTimerFires
    \/ handleRefresh
    \/ \E n \in {NumSlots - 1, NumSlots} : DevicesEnumerated(n)

SpecExtrinsic == ExtInit /\ [][ExtNext]_vars

\* The service and the backend under the rounds of the extrinsic step with
\* three cameras listed and shown; the detection answers are the confirmed
\* one and the failure.
ServiceDetectResponses ==
    {a \in DetectResponses :
        a.ok => (a.success /\ a.detected /\ a.ids = minMarkersDetected)}

ServiceInit == ExtInit /\ cameraDevices = NumSlots

ServiceNext ==
    \/ \E r \in Rounds : captureImage(r, selectedCameras)
    \/ \E r \in Rounds, i \in selectedCameras, resp \in ServiceDetectResponses :
          DetectReturns(r, i, resp)
    \/ \E r \in Rounds, resp \in StartResponses : StartReturns(r, resp)
    \/ FinallyTimerFires
    \/ PollTick
    \/ \E out \in {"failed", "below", "full"}, stale \in BOOLEAN :
          PollReturns(out, stale)
    \/ JobAdvances
    \/ stopCalibration
    \/ \E ok \in BOOLEAN : StopReturns(ok)

SpecService == ServiceInit /\ [][ServiceNext]_vars

\* ------------------------------------------------------------------ claims
\* C1 to C5 are checked under SpecCapture, C6 to C10 under SpecCamera.

\* C1: after any sequence of capture and switchCamera operations on any
\* slots, every slot's capture count is an integer in [0, 15].
C1_CountsInRange ==
    \A i \in Slots : captureCounts[i] \in 0 .. MaxCaptures

\* A slot at the cap after a late response, another slot part-way, and a
\* third reset by a switch.
C1_Witness ==
    /\ captureCounts[1] = MaxCaptures
    /\ captureCounts[0] \in 1 .. (MaxCaptures - 1)
    /\ currentCamera = 2
    /\ inflight[1].old = 0 /\ inflight[1].own = 0

\* C2: a capture attempted on a slot whose count is 15 is rejected with no
\* side effect: no step taken from such a state submits a detection request
\* for the slot, and its count stays 15 (only a switch to the slot resets it).
C2_CaptureRejectedAtCap ==
    [][\A i \in Slots :
          captureCounts[i] = MaxCaptures =>
             /\ Pending(i)' <= Pending(i)
             /\ \/ captureCounts'[i] = MaxCaptures
                \/ captureCounts'[i] = 0 /\ currentCamera' = i]_vars

\* Slot 1 after 15 confirmed captures: its stream is ready and no capture is
\* in flight, so that only the cap stands between a click and a request.
C2_Witness ==
    /\ IntrinsicMounted
    /\ captureCounts[1] = MaxCaptures
    /\ confirmed[1] = MaxCaptures
    /\ CaptureGuard(1)
    /\ TotalPending < MaxInFlight
    /\ ~ButtonEnabled(1)

\* C3: switchCamera(index) sets the active slot to index and resets
\* count(index) to 0, the counts of the other slots unchanged: a step that
\* changes the active slot or lowers a count is such a switch.
C3_SwitchResetsOnlyItsSlot ==
    [][(currentCamera' # currentCamera
            \/ \E i \in Slots : captureCounts'[i] < captureCounts[i])
         => /\ captureCounts'[currentCamera'] = 0
            /\ \A j \in Slots \ {currentCamera'} :
                  captureCounts'[j] = captureCounts[j]]_vars

\* After a switch to slot 1 the other slot still has its captures.
C3_Witness ==
    /\ currentCamera = 1
    /\ captureCounts[1] = 0
    /\ captureCounts[0] = MaxCaptures

\* C4: a count is incremented, by exactly 1, only when the detection request
\* of that capture came back confirmed by the backend (HTTP ok, success and
\* detected); any other response leaves every count as it is.  Each count
\* equals the number of confirmed detections delivered for its slot since the
\* slot's last reset, up to the cap.
C4_CountsOnlyConfirmed ==
    \A i \in Slots : captureCounts[i] = confirmed[i]

C4_Witness ==
    /\ captureCounts[0] = 3
    /\ captureCounts[1] = 1
    /\ TotalPending = 0

\* C5: captures are mutually exclusive per slot: no slot ever has two
\* detection requests in flight.
C5_OneCapturePerSlot ==
    \A i \in Slots : Pending(i) <= 1


\* C6: in every reachable state the slot holds at most one live (un-stopped)
\* stream, across acquire attempts, retries, teardown and re-mount.
C6_AtMostOneLiveStream ==
    Cardinality(live) <= 1

\* A second mount of the slot holds the stream of its second attempt, after
\* a request of the first mount resolved late.
C6_Witness ==
    /\ cur = 2
    /\ attempts[2] = 2
    /\ live = {[m |-> 2, a |-> 2]}
    /\ late # {}

\* C7: acquire is single-flight per slot: at no time are two stream
\* requests for the slot pending.
C7_OneRequestPerSlot ==
    Cardinality({m \in Mounts : pc[m] = "gum"}) <= 1

\* C8: a stream obtained after the teardown of its mount is stopped at once:
\* no track of a torn-down mount is live, none is attached to the sink, and
\* none is announced (Ready, onStream, success toast); a slot that stays torn
\* down has no live track.
C8_LateStreamDiscarded ==
    /\ \A s \in live : s.m = cur
    /\ srcObject # NoStream => srcObject.m = cur
    /\ \A sg \in signals : sg[2].m = cur
    /\ \A s \in late :
          /\ s \notin live
          /\ s # srcObject
          /\ s # streamRef
          /\ \A k \in {"ready", "onStream", "toast"} : <<k, s>> \notin signals

\* The slot is torn down, and the request that was pending has resolved.
C8_Witness ==
    /\ cur = 0
    /\ late # {}
    /\ \A m \in Mounts : pc[m] = "idle"

\* C9: the stream held is released on every exit path: when the acquisition
\* attempt of the mounted closure has ended in failure (its retry is pending,
\* or the slot is in Error), the slot holds no live track and the sink is
\* detached.
C9_ReleasedOnFailure ==
    (cur # 0 /\ pc[cur] = "idle" /\ (cur \in retryTimers \/ hasError))
       => (live = {} /\ srcObject = NoStream)

\* C10: for one mount a failing acquisition is retried at most 7 times (8
\* acquire sequences), a pending retry is never dropped by the single-flight
\* guard, and every retry runs the whole sequence: the stream held is
\* released and the sink detached, a new stream is requested, and the stream
\* obtained is held and attached while the call waits for readiness.
C10_RetriesBoundedAndFull ==
    /\ [](\A m \in Mounts :
             /\ retryCount[m] <= 7
             /\ attempts[m] <= 8
             /\ m \in retryTimers =>
                   /\ m = cur
                   /\ hasDevice[m]
                   /\ ~initializingRef[inst[m]]
             /\ (m = cur /\ pc[m] \in {"meta", "play"}) =>
                   /\ streamRef = [m |-> m, a |-> attempts[m]]
                   /\ srcObject = streamRef
                   /\ live = {streamRef})
    /\ [][\A m \in Mounts :
             (attempts[m] >= 1 /\ attempts'[m] = attempts[m] + 1 /\ gumSupported)
                => /\ pc'[m] = "gum"
                   /\ live' = {}
                   /\ streamRef' = NoStream
                   /\ srcObject' = NoStream]_vars

\* The seventh retry of a mount, waiting for readiness with its stream
\* attached.
C10_Witness ==
    /\ cur # 0
    /\ retryCount[cur] = 7
    /\ attempts[cur] = 8
    /\ pc[cur] = "meta"

\* C11: the stream-acquisition attempts made for one mount of the slot never
\* exceed 7 (where getUserMedia exists, each attempt is a stream request).
C11_AtMostSevenAttempts ==
    gumSupported => \A m \in Mounts : attempts[m] <= MAX_RETRIES

\* The mounted closure has given up: its retry budget is spent and it has
\* reported the failure.
Exhausted == cur # 0 /\ errToasts[cur] > 0

\* C12: after the retry budget is exhausted the slot is in Error with no
\* timer and no call of its mount pending, and while the mount stays it
\* remains so: no acquire sequence is started for the slot.
C12_ErrorIsStable ==
    /\ [](Exhausted =>
             /\ hasError
             /\ ~isInitializing
             /\ cur \notin retryTimers
             /\ cur \notin warm
             /\ pc[cur] = "idle")
    /\ [][(Exhausted /\ cur' = cur) =>
             /\ Exhausted'
             /\ hasError'
             /\ attempts' = attempts]_vars

\* The slot in Error after eight failed acquire sequences of its mount.
C12_Witness ==
    /\ Exhausted
    /\ hasError
    /\ attempts[cur] = MAX_RETRIES + 1
    /\ retryCount[cur] = MAX_RETRIES

\* C13: Ready is signalled only after the stream obtained was attached to
\* the sink and the sink reported readiness (loadedmetadata), and the
\* success callback and the success toast come only after Ready.
C13_ReadyAfterAttachAndMetadata ==
    /\ \A sg \in signals : \E i \in 1 .. Len(events) : events[i] = sg
    /\ \A i \in 1 .. Len(events) :
          /\ events[i][1] = "ready" =>
                \E j \in 1 .. i, k \in 1 .. i :
                   /\ j < k /\ k < i
                   /\ events[j] = <<"attach", events[i][2]>>
                   /\ events[k] = <<"loadedmetadata", events[i][2]>>
          /\ events[i][1] \in {"onStream", "toast"} =>
                \E j \in 1 .. i :
                   j < i /\ events[j] = <<"ready", events[i][2]>>
    /\ \A sg \in signals : sg[1] = "ready" => srcObject = sg[2]

\* The slot Ready with the stream of a retry, callback and toast delivered.
C13_Witness ==
    /\ cur # 0
    /\ ~isInitializing /\ ~hasError
    /\ attempts[cur] = 2
    /\ <<"toast", StreamOf(cur)>> \in signals
    /\ Len(events) = 5

\* C14: whenever a stream request is issued for the slot, every stream held
\* before is stopped and the sink is detached, whether the previous
\* acquisition succeeded or is superseded.
C14_ReleasedBeforeRequest ==
    [][\A m \in Mounts :
          (pc[m] # "gum" /\ pc'[m] = "gum") =>
             /\ live' = {}
             /\ streamRef' = NoStream
             /\ srcObject' = NoStream]_vars

\* The stream of a retry is held, live and attached, its readiness wait has
\* failed, and the next retry, which has to release it, is due.
C14_Witness ==
    /\ cur \in retryTimers
    /\ attempts[cur] >= 2
    /\ streamRef = StreamOf(cur)
    /\ live = {streamRef}
    /\ srcObject = streamRef

\* C15: teardown cancels every pending timer of the mount, warm-up and
\* retry: a mount torn down starts no acquire sequence (its history of
\* attempts, reset at teardown, stays empty).
C15_NoAttemptAfterTeardown ==
    \A m \in Mounts : m # cur => attempts[m] = 0

\* C16 to C18 are checked under the specifications of useCameras.

\* C16: a live stream is stopped only by the slot that holds it: the
\* registry of connected streams never stops a stream that is live and held
\* by a slot.
C16_RegistryStopsNoHeldStream ==
    stolen = {}

\* The registry has stopped a stream it had recorded, and a slot holds a
\* live stream that the registry has recorded for its device before.
C16_Witness ==
    /\ regStopped # {}
    /\ \E i \in Slots :
          /\ slotStream[i] \in liveStreams
          /\ cameraStreams[i] # 0
          /\ effectStreams[i] # 0

C18_FailSafeEnumeration ==
    /\ [](\A c \in Calls : calls[c].pc = "done" => calls[c].toast # "none")
    /\ [][\A c \in Calls :
             (calls[c].pc # "done" /\ calls'[c].pc = "done") =>
                \/ /\ calls'[c].toast = "Camera Error"
                   /\ cameraDevices' = 0
                \/ /\ calls'[c].toast = "Cameras Detected"
                   /\ present > 0
                   /\ cameraDevices' = present]_vars

\* After a failed enumeration, a later one (started after the failure) has
\* listed the one device now present.
C18_Witness ==
    /\ failedOnce
    /\ present = 1
    /\ cameraDevices = 1
    /\ \E c \in Calls :
          /\ calls[c].afterFail
          /\ calls[c].pc = "done"
          /\ calls[c].toast = "Cameras Detected"
    /\ \A c \in Calls : calls[c].pc \in {"idle", "done"}

\* C19: a capture round of the extrinsic step sends start_calibration if and
\* only if each of its three detections reported success and detected; with
\* any other combination no start_calibration request is sent, and so no job
\* is accepted by the backend.
C19_StartIffAllDetected ==
    \A r \in Rounds :
        /\ rounds[r].start # "none" <=>
               \A i \in selectedCameras : rounds[r].det[i] = "ok"
        /\ (\E i \in selectedCameras : rounds[r].det[i] # "ok") =>
               rounds[r].start \notin {"pending", "accepted"}

\* A round with results [ok, ok, failed] ended in error without a start
\* request, and the next round, with every camera detected, sent one.
C19_Witness ==
    /\ nRounds = 2
    /\ rounds[1].pc = "done"
    /\ rounds[1].det = [i \in selectedCameras |-> IF i = 2 THEN "failed" ELSE "ok"]
    /\ rounds[1].start = "none"
    /\ rounds[2].det = [i \in selectedCameras |-> "ok"]
    /\ rounds[2].start = "accepted"

\* C20: the detection requests of a round are all sent in the step that
\* starts it, before any of its results exists, and a round that waits for
\* its detections goes on (to start_calibration or to the error) only in
\* the step that delivers the last of the three results: the first result,
\* success or failure, decides nothing.
C20_IssuedTogetherJoinedBeforeEvaluation ==
    /\ [][\A r \in Rounds :
             (\E i \in selectedCameras :
                 rounds[r].det[i] # "pending" /\ rounds'[r].det[i] = "pending") =>
                /\ \A j \in selectedCameras : rounds[r].det[j] = "none"
                /\ \A j \in selectedCameras :
                      rounds'[r].det[j] \in {"pending", "threw"}]_vars
    /\ [][\A r \in Rounds :
             (rounds[r].pc = "detecting" /\ rounds'[r].pc # "detecting") =>
                \A i \in selectedCameras : rounds'[r].det[i] \in DetectResults]_vars
    /\ [](\A r \in Rounds :
             rounds[r].pc = "detecting" =>
                /\ calStatus = "detecting"
                /\ \E i \in selectedCameras : rounds[r].det[i] = "pending"
                /\ \A i \in selectedCameras :
                      rounds[r].det[i] \in DetectResults \cup {"pending"})

\* The first round was evaluated with all three results in, and the second
\* is still waiting although one detection has failed and one succeeded.
C20_Witness ==
    /\ rounds[1].pc = "done"
    /\ \A i \in selectedCameras : rounds[1].det[i] \in DetectResults
    /\ rounds[2].pc = "detecting"
    /\ rounds[2].det[0] = "failed"
    /\ rounds[2].det[1] = "ok"
    /\ rounds[2].det[2] = "pending"
    /\ calStatus = "detecting"

\* C21: at most one calibration job is in flight: no start_calibration
\* request is sent while the job started before is still running (progress
\* below 100, no error).
C21_OneJobInFlight ==
    \A r \in Rounds : rounds[r].start = "pending" => job # "running"

\* C22: the status is never 'complete' while the progress of the backend's
\* job is still below 100.
C22_CompleteOnlyAtFullProgress ==
    job = "running" => calStatus # "complete"

\* C23: when the backend refuses or fails the start_calibration request of
\* the latest round, the status becomes 'error', never 'complete'.
C23_RefusedStartIsError ==
    \A r \in Rounds :
        (r = nRounds /\ rounds[r].start = "refused") => calStatus = "error"

\* C24: once a poll has observed progress >= 100 or has failed, the polling
\* interval is cancelled, and no calibration_progress request is sent from
\* then on (until polling is started again): requests are sent only while
\* the interval is set.
C24_PollingStopsAtTerminal ==
    /\ [](terminalSeen # "none" => ~progressInterval)
    /\ [][polls' > polls => (progressInterval /\ terminalSeen = "none")]_vars

\* A poll has observed the finished job and stopped the polling while
\* another request, sent before, is still awaiting its answer.
C24_Witness ==
    /\ terminalSeen = "full"
    /\ job = "full"
    /\ ~progressInterval
    /\ ~svcCalibrating
    /\ polls = 1

\* C25: once a stopCalibration call has resolved, whatever the answer to
\* its /stop request, no polling interval is set.
C25_StopCancelsPolling ==
    stopResolved => ~progressInterval

\* C26: when a round has ended and the timer of its finally has fired, the
\* busy flag isCalibrating is cleared, whatever the status was when the
\* round started.
C26_BusyClearedAfterRound ==
    (finTimer = "none" /\ \A r \in Rounds : rounds[r].pc \in {"idle", "done"})
        => ~isCalibrating

\* C27: a refresh re-triggers the initialization of the cameras: it never
\* ends in the error toast without having initialized them.
C27_RefreshReinitializes ==
    refreshToast # "Error"

\* C28: with fewer than 3 devices listed no round starts: no step sends a
\* detection request, and unless a round started before is still running
\* the status and the start requests stay as they are.
C28_RefusedBelowThreeDevices ==
    [][cameraDevices < NumSlots =>
          /\ nRounds' = nRounds
          /\ \A r \in Rounds, i \in selectedCameras :
                rounds'[r].det[i] = "pending" => rounds[r].det[i] = "pending"
          /\ (\A r \in Rounds : rounds[r].pc \notin {"detecting", "starting"}) =>
                /\ calStatus' = calStatus
                /\ \A r \in Rounds : rounds'[r].start = rounds[r].start]_vars

\* Two devices are listed after a first round has ended and its busy flag
\* has been cleared: the next round is refused only for the device count.
C28_Witness ==
    /\ cameraDevices = NumSlots - 1
    /\ ~isCalibrating
    /\ finTimer = "none"
    /\ nRounds = 1
    /\ rounds[1].pc = "done"

\* C29: a detection whose answer carries success: false does not count
\* towards the condition that starts a calibration job: no round that sent
\* start_calibration had such an answer.
C29_RefusedDetectionNotCounted ==
    \A r \in Rounds : rounds[r].start # "none" => refusals[r] = {}

\* C30: in every capture step a detection counts as detected only if it
\* carries at least minMarkersDetected (4) marker ids: no answer with fewer
\* ids increments a capture count.
C30_DetectedOnlyWithMinMarkers == ~fewCounted

\* C31: the slot's error toast is shown exactly once for each transition
\* into Error, in the step that gives up, and a failed attempt that is
\* going to be retried shows none.
C31_OneToastPerError ==
    /\ [](\A m \in Mounts : errToasts[m] <= 1)
    /\ [][\A m \in Mounts :
             errToasts'[m] > errToasts[m] =>
                /\ errToasts'[m] = errToasts[m] + 1
                /\ m = cur /\ cur' = cur
                /\ hasError'
                /\ retryCount[m] = MAX_RETRIES]_vars
    /\ [][\A m \in Mounts :
             retryCount'[m] > retryCount[m] => errToasts'[m] = errToasts[m]]_vars
    /\ [][(~hasError /\ hasError') =>
             (cur' = cur /\ errToasts'[cur] = errToasts[cur] + 1)]_vars

\* The mounted closure has used up its retries without a toast and has then
\* given up with one.
C31_Witness ==
    /\ cur # 0
    /\ hasError
    /\ retryCount[cur] = MAX_RETRIES
    /\ attempts[cur] = MAX_RETRIES + 1
    /\ errToasts[cur] = 1
    /\ \A m \in Mounts : m # cur => errToasts[m] = 0

\* C33: after a re-run of the effect the new mount's acquire is not dropped
\* for good: the slot is never left Initializing with a device, no attempt
\* made by the mounted closure, and nothing pending that could start one (no
\* timer, no call in flight).
C33_RemountNotDropped ==
    ~ /\ cur # 0
      /\ gumSupported
      /\ hasDevice[cur]
      /\ isInitializing
      /\ ~hasError
      /\ attempts[cur] = 0
      /\ warm = {}
      /\ retryTimers = {}
      /\ \A m \in Mounts : pc[m] = "idle"

\* C32: when the acquisition of a slot has failed twice and succeeded on the
\* third attempt, exactly one toast has been shown for the whole sequence
\* (the success toast).
C32_OneToastOnThirdSuccess ==
    \A i \in Slots :
        (slotFails[i] = 2 /\ slotToasts[i] > 0) => slotToasts[i] = 1

\* C34: registering a stream, which changes the registry's state, tears
\* down no slot: as long as the page and the step stay, a step that changes
\* cameraStreams leaves every slot with the stream it holds.
C34_RegistrationKeepsSlots ==
    [][(cameraStreams' # cameraStreams /\ pageMounted /\ pageMounted'
          /\ currentStep' = currentStep) =>
             \A k \in Slots : slotStream'[k] = slotStream[k]]_vars

\* C35: when every call of getCameras that was started has completed, the
\* device list is the one set by the call started last.
C35_LatestEnumerationWins ==
    (\A c \in Calls : calls[c].pc \in {"idle", "done"}) =>
        (latestDone /\ cameraDevices = latestList)

\* C36: the answer to a poll sent before polling was last started neither
\* stops the polling nor clears the calibrating flag of the service.
C36_StalePollHarmless ==
    [][stalePolls' < stalePolls =>
          /\ progressInterval' = progressInterval
          /\ svcCalibrating' = svcCalibrating]_vars

\* C37: no update of a count is lost or misplaced: the answer to a slot's
\* request raises that slot's count by exactly one when the backend
\* confirmed the detection, leaves it otherwise, and leaves every other
\* slot's count as it is, whatever else is in flight; a reset of a slot's
\* count changes no other count and no request in flight.
C37_NoLostUpdates ==
    /\ [][\A i \in Slots :
             Pending(i)' < Pending(i) =>
                /\ \A j \in Slots \ {i} : captureCounts'[j] = captureCounts[j]
                /\ captureCounts'[i] =
                      IF confirmed'[i] > confirmed[i] THEN captureCounts[i] + 1
                                                      ELSE captureCounts[i]]_vars
    /\ [][\A i \in Slots :
             captureCounts'[i] < captureCounts[i] =>
                /\ \A j \in Slots \ {i} : captureCounts'[j] = captureCounts[j]
                /\ inflight' = inflight]_vars

\* The requests of slots 0 and 1 were in flight together and both answers,
\* confirmed, have arrived: each count is 1.
C37_Witness ==
    /\ jointFlight
    /\ jointCounted = 2
    /\ TotalPending = 0
    /\ captureCounts = [i \in Slots |-> IF i \in {0, 1} THEN 1 ELSE 0]

\* C38: a detection request is sent for a slot only while the slot's
\* CameraView holds the stream it announced.
C38_CaptureOnlyWhileReady ==
    [][\A i \in Slots : Pending(i)' > Pending(i) => viewReady[i]]_vars

====
